---- MODULE Spec2Model ----
(***************************************************************************)
(* Model of src/main.rs: a wasmtime host shim.  main runs perform_call     *)
(* twice; perform_call loads a guest, builds one DummyCallable per         *)
(* function import, instantiates, binds the exported memory to the         *)
(* MemoryHolder, injects the input payload and invokes an entry point.     *)
(* While the guest runs (start function or entry point) it may call the    *)
(* host stubs and grow its memory.                                         *)
(*                                                                         *)
(* Integers of the program are kept at their width as bit sequences        *)
(* (index 1 is the least significant bit).  Linear memory is a sequence of *)
(* bytes; page size, initial size and heap base are scaled down.           *)
(***************************************************************************)
EXTENDS Integers, Sequences, FiniteSets, TLC

(* ------------------------------ bounds -------------------------------- *)
\* bits a number of the model may occupy (larger values saturate in AsUsize)
SmallBits == 7
\* bytes per page of linear memory (scaled)
PageSize == 4
\* pages of the guest memory at instantiation
InitPages == 3
\* pages the guest may grow its memory to
MaxPages == 4
\* host calls the guest makes in one driver run
MaxCalls == 2
\* the heap base handed to the allocator (scaled)
HeapBaseScaled == 4

(* ------------------------- program constants -------------------------- *)
U32Bits == 32
U64Bits == 64

(* ---------------------------- bit words ------------------------------- *)
RECURSIVE Pow2(_)
Pow2(n) == IF n = 0 THEN 1 ELSE 2 * Pow2(n - 1)

\* every value >= Huge is represented by Huge once it is widened to usize
Huge == Pow2(SmallBits)

\* the w-bit word of a number n < Huge
ToBits(n, w) ==
    [i \in 1..w |-> IF i > SmallBits THEN 0 ELSE (n \div Pow2(i - 1)) % 2]

RECURSIVE LowValue(_, _)
LowValue(bits, i) ==
    IF i = 0 THEN 0 ELSE bits[i] * Pow2(i - 1) + LowValue(bits, i - 1)

\* `x as usize` of a u32: no truncation on a 64-bit host; saturated at Huge
AsUsize(bits) ==
    IF \E i \in (SmallBits + 1)..Len(bits) : bits[i] = 1
    THEN Huge
    ELSE LowValue(bits, SmallBits)

AllOnes(w) == [i \in 1..w |-> 1]
Zeros(w) == [i \in 1..w |-> 0]

\* !0u32 as u64 : zero extension of 0xFFFFFFFF
MaskLow32 == [i \in 1..U64Bits |-> IF i <= U32Bits THEN 1 ELSE 0]

BitAnd(a, b) == [i \in 1..Len(a) |-> a[i] * b[i]]
ShiftRight(a, n) == [i \in 1..Len(a) |-> IF i + n <= Len(a) THEN a[i + n] ELSE 0]
\* `x as u32` of a u64: truncation to the low 32 bits
TruncU32(a) == SubSeq(a, 1, U32Bits)

\* a plausible slip: the shift is one short
unpack_ptr_and_len_Shift31(val) ==
    << TruncU32(BitAnd(val, MaskLow32)), TruncU32(ShiftRight(val, U32Bits - 1)) >>

\* unpack_ptr_and_len(val: u64) -> (u32, u32)
unpack_ptr_and_len(val) ==
    << TruncU32(BitAnd(val, MaskLow32)), TruncU32(ShiftRight(val, U32Bits)) >>

\* the guest side of the convention: pointer in the low half, length in the
\* high half of one 64-bit word
Pack(p, l) == p \o l

(* ------------------------------ values -------------------------------- *)
NumTypes == {"I32", "I64", "F32", "F64"}
ValTypes == NumTypes \cup {"V128"}

Width(ty) ==
    IF ty \in {"I32", "F32"} THEN U32Bits
    ELSE IF ty = "V128" THEN 2 * U64Bits
    ELSE U64Bits

I32(bits) == [ty |-> "I32", bits |-> bits]
I64(bits) == [ty |-> "I64", bits |-> bits]

\* default_val: the zero of a numeric type; todo!() panics for the others
default_val(val_ty) ==
    IF val_ty \in NumTypes
    THEN [ok |-> TRUE, v |-> [ty |-> val_ty, bits |-> Zeros(Width(val_ty))]]
    ELSE [ok |-> FALSE, v |-> << >>]

(* ------------------------------ UTF-8 --------------------------------- *)
Cont(b) == b >= 128 /\ b <= 191

RECURSIVE ValidUtf8(_)
ValidUtf8(s) ==
    IF s = << >> THEN TRUE
    ELSE LET b == s[1]
             n == Len(s)
         IN  IF b < 128 THEN ValidUtf8(Tail(s))
             ELSE IF b >= 194 /\ b <= 223
             THEN n >= 2 /\ Cont(s[2]) /\ ValidUtf8(SubSeq(s, 3, n))
             ELSE IF b >= 224 /\ b <= 239
             THEN /\ n >= 3
                  /\ Cont(s[2]) /\ Cont(s[3])
                  /\ (b = 224 => s[2] >= 160)
                  /\ (b = 237 => s[2] <= 159)
                  /\ ValidUtf8(SubSeq(s, 4, n))
             ELSE IF b >= 240 /\ b <= 244
             THEN /\ n >= 4
                  /\ Cont(s[2]) /\ Cont(s[3]) /\ Cont(s[4])
                  /\ (b = 240 => s[2] >= 144)
                  /\ (b = 244 => s[2] <= 143)
                  /\ ValidUtf8(SubSeq(s, 5, n))
             ELSE FALSE

\* read_string: slice memory[ptr..ptr+len] (panics out of range), then
\* String::from_utf8(..).unwrap() (panics on malformed text)
read_string(memory, ptr, len) ==
    LET p == AsUsize(ptr)
        l == AsUsize(len)
    IN  IF p + l > Len(memory) THEN [ok |-> FALSE, v |-> << >>]
        ELSE LET bytes == SubSeq(memory, p + 1, p + l)
             IN  IF ValidUtf8(bytes)
                 THEN [ok |-> TRUE, v |-> bytes]
                 ELSE [ok |-> FALSE, v |-> << >>]

(* --------------------------- linear memory ---------------------------- *)
\* the guest's data segment: 't', a two-byte 'e acute', and a byte that can
\* start no UTF-8 sequence
DataSegment == << 116, 195, 169, 255 >>

\* the memory of a fresh instance of the given number of pages
FreshMem(pages) ==
    [i \in 1..(pages * PageSize) |->
        IF i <= Len(DataSegment) THEN DataSegment[i] ELSE 0]

InitMem == FreshMem(InitPages)

(* --------------------------- MemoryHolder ----------------------------- *)
MemoryHolder_new == [inner |-> "None"]

MemoryHolder_set(holder) == [holder EXCEPT !.inner = "Some"]

\* a holder that hands out the view resolved at instantiation
MemoryHolder_with_Cached(holder, mem) ==
    IF holder.inner = "None"
    THEN [ok |-> FALSE, memory |-> << >>]
    ELSE [ok |-> TRUE,
          memory |-> SubSeq(mem, 1, IF Len(mem) < Len(InitMem)
                                    THEN Len(mem) ELSE Len(InitMem))]

\* a holder whose access does not fail while unbound
MemoryHolder_with_Unchecked(holder, mem) == [ok |-> TRUE, memory |-> mem]

\* MemoryHolder::with: guard.as_ref().unwrap() panics while unbound; the
\* closure gets the Memory, whose data is resolved when it is asked for
MemoryHolder_with(holder, mem) ==
    IF holder.inner = "None"
    THEN [ok |-> FALSE, memory |-> << >>]
    ELSE [ok |-> TRUE, memory |-> mem]

(* ------------------------- external allocator ------------------------- *)
heap_base == HeapBaseScaled

FreeingBumpHeapAllocator_new(base) ==
    [base |-> base, bumper |-> 0, live |-> {}, free |-> {}]

\* allocate(memory, size): a pointer to size bytes inside memory, or an error
allocate(a, memory, size) ==
    LET sz == IF size = 0 THEN 1 ELSE size
        reuse == {b \in a.free : b[2] = sz}
    IN  IF size >= Huge
        THEN [ok |-> FALSE, ptr |-> 0, a |-> a]
        ELSE IF reuse # {}
        THEN LET b == CHOOSE x \in reuse : \A y \in reuse : x[1] <= y[1]
             IN  [ok |-> TRUE, ptr |-> b[1],
                  a |-> [a EXCEPT !.live = @ \cup {b}, !.free = @ \ {b}]]
        ELSE IF a.base + a.bumper + sz <= Len(memory)
        THEN [ok |-> TRUE, ptr |-> a.base + a.bumper,
              a |-> [a EXCEPT !.bumper = @ + sz,
                              !.live = @ \cup {<< a.base + a.bumper, sz >>}]]
        ELSE [ok |-> FALSE, ptr |-> 0, a |-> a]

\* deallocate(memory, ptr): an error unless ptr is currently allocated
deallocate(a, memory, ptr) ==
    LET hit == {b \in a.live : b[1] = ptr}
    IN  IF hit = {}
        THEN [ok |-> FALSE, a |-> a]
        ELSE [ok |-> TRUE, a |-> [a EXCEPT !.live = @ \ hit, !.free = @ \cup hit]]

(* --------------------------- DummyCallable ---------------------------- *)
MallocName == "ext_allocator_malloc_version_1"
FreeName == "ext_allocator_free_version_1"
LogName == "ext_logging_log_version_1"
Recognized == {MallocName, FreeName, LogName}

\* what one run of a stub's body leaves behind
Done(outcome, fault, results, a, lines, view, decoded) ==
    [outcome |-> outcome, fault |-> fault, results |-> results, allocator |-> a,
     lines |-> lines, view |-> view, decoded |-> decoded]

Panicked(a, view) == Done("Panic", "panic", << >>, a, << >>, view, << >>)

\* results.iter_mut().enumerate(): results[idx] = default_val(&params()[idx])
DefaultsPanic(func_ty) ==
    \E idx \in 1..Len(func_ty.results) :
        \/ idx > Len(func_ty.params)
        \/ ~default_val(func_ty.params[idx]).ok

DefaultResults(func_ty) ==
    [idx \in 1..Len(func_ty.results) |-> default_val(func_ty.params[idx]).v]

\* the line println!("{}: {}", target, msg) writes
LogLine(target, msg) == target \o << 58, 32 >> \o msg

malloc_arm(self, params, res0, a, holder, mem) ==
    IF Len(params) < 1 \/ params[1].ty # "I32"
    THEN Panicked(a, -1)
    ELSE LET w == MemoryHolder_with(holder, mem)
         IN  IF ~w.ok THEN Panicked(a, -1)
             ELSE LET r == allocate(a, w.memory, AsUsize(params[1].bits))
                      view == Len(w.memory)
                  IN  IF ~r.ok
                      THEN Done("Trap", "allocate", << >>, r.a, << >>, view, << >>)
                      ELSE IF Len(res0) < 1
                      THEN Panicked(r.a, view)
                      ELSE Done("Ok", "none",
                                [res0 EXCEPT ![1] = I32(ToBits(r.ptr, U32Bits))],
                                r.a, << >>, view, << >>)

\* a stub that swallows the allocator's error
free_arm_Swallow(self, params, res0, a, holder, mem) ==
    IF Len(params) < 1 \/ params[1].ty # "I32"
    THEN Panicked(a, -1)
    ELSE LET w == MemoryHolder_with(holder, mem)
         IN  IF ~w.ok THEN Panicked(a, -1)
             ELSE LET r == deallocate(a, w.memory, AsUsize(params[1].bits))
                  IN  Done("Ok", "none", res0, r.a, << >>, Len(w.memory), << >>)

free_arm(self, params, res0, a, holder, mem) ==
    IF Len(params) < 1 \/ params[1].ty # "I32"
    THEN Panicked(a, -1)
    ELSE LET w == MemoryHolder_with(holder, mem)
         IN  IF ~w.ok THEN Panicked(a, -1)
             ELSE LET r == deallocate(a, w.memory, AsUsize(params[1].bits))
                      view == Len(w.memory)
                  IN  IF ~r.ok
                      THEN Done("Trap", "deallocate", << >>, r.a, << >>, view, << >>)
                      ELSE Done("Ok", "none", res0, r.a, << >>, view, << >>)

\* a stub that prints the target before it has read the message
log_arm_PrintEarly(self, params, res0, a, holder, mem) ==
    IF Len(params) < 3 \/ params[2].ty # "I64" \/ params[3].ty # "I64"
    THEN Panicked(a, -1)
    ELSE LET t == unpack_ptr_and_len(params[2].bits)
             m == unpack_ptr_and_len(params[3].bits)
             w == MemoryHolder_with(holder, mem)
         IN  IF ~w.ok THEN Panicked(a, -1)
             ELSE LET target == read_string(w.memory, t[1], t[2])
                      msg == read_string(w.memory, m[1], m[2])
                  IN  IF ~target.ok
                      THEN [Panicked(a, -1) EXCEPT !.decoded = << t, m >>]
                      ELSE IF ~msg.ok
                      THEN [Panicked(a, -1) EXCEPT !.decoded = << t, m >>,
                                !.lines = << target.v \o << 58, 32 >> >>]
                      ELSE Done("Ok", "none", res0, a,
                                << LogLine(target.v, msg.v) >>, -1, << t, m >>)

log_arm(self, params, res0, a, holder, mem) ==
    IF Len(params) < 3 \/ params[2].ty # "I64" \/ params[3].ty # "I64"
    THEN Panicked(a, -1)
    ELSE LET t == unpack_ptr_and_len(params[2].bits)
             m == unpack_ptr_and_len(params[3].bits)
             w == MemoryHolder_with(holder, mem)
         IN  IF ~w.ok THEN Panicked(a, -1)
             ELSE LET target == read_string(w.memory, t[1], t[2])
                      msg == read_string(w.memory, m[1], m[2])
                  IN  IF ~target.ok \/ ~msg.ok
                      THEN [Panicked(a, -1) EXCEPT !.decoded = << t, m >>]
                      ELSE Done("Ok", "none", res0, a,
                                << LogLine(target.v, msg.v) >>, -1, << t, m >>)

\* DummyCallable::handle_call
handle_call(self, params, a, holder, mem) ==
    IF DefaultsPanic(self.func_ty)
    THEN Panicked(a, -1)
    ELSE LET res0 == DefaultResults(self.func_ty)
         IN  CASE self.name = MallocName -> malloc_arm(self, params, res0, a, holder, mem)
               [] self.name = FreeName -> free_arm(self, params, res0, a, holder, mem)
               [] self.name = LogName -> log_arm(self, params, res0, a, holder, mem)
               [] OTHER -> Done("Ok", "none", res0, a, << >>, -1, << >>)

\* a boundary without catch_unwind
call_NoCatch(self, params, a, holder, mem) ==
    handle_call(self, params, a, holder, mem)

\* Callable::call: catch_unwind(handle_call).map_err(trap).and_then(id)
call(self, params, a, holder, mem) ==
    LET r == handle_call(self, params, a, holder, mem)
    IN  IF r.outcome = "Panic" THEN [r EXCEPT !.outcome = "Trap"] ELSE r

(* ------------------------------ guests -------------------------------- *)
Sig(p, r) == [params |-> p, results |-> r]
FuncImport(name, ft) == [kind |-> "func", name |-> name, func_ty |-> ft]
MemoryImport(name) == [kind |-> "memory", name |-> name, func_ty |-> Sig(<< >>, << >>)]

MallocSig == Sig(<< "I32" >>, << "I32" >>)
FreeSig == Sig(<< "I32" >>, << >>)
LogSig == Sig(<< "I32", "I64", "I64" >>, << >>)

\* a guest that imports the three services as documented, and one more
GuestStd ==
    << FuncImport(MallocName, MallocSig), FuncImport(FreeName, FreeSig),
       FuncImport(LogName, LogSig),
       FuncImport("ext_misc_print_num_version_1", Sig(<< "I64" >>, << >>)) >>

\* a guest whose imports carry other signatures
GuestOdd ==
    << FuncImport(MallocName, Sig(<< "I32" >>, << >>)),
       FuncImport(FreeName, Sig(<< "I64" >>, << >>)),
       FuncImport(LogName, Sig(<< "I32" >>, << >>)),
       FuncImport("ext_a", Sig(<< >>, << "I32" >>)),
       FuncImport("ext_b", Sig(<< "I64" >>, << "I32" >>)),
       FuncImport("ext_c", Sig(<< "V128" >>, << "I32" >>)),
       FuncImport("ext_d", Sig(<< "F64", "I32" >>, << "F64", "I32" >>)) >>

\* a guest that imports its memory
GuestMemImport ==
    << FuncImport(MallocName, MallocSig), MemoryImport("memory"),
       FuncImport(FreeName, FreeSig) >>

Guests == {GuestStd, GuestOdd, GuestMemImport}

\* (pointer, length) pairs a guest hands to the logging service
LocSamples ==
    { << ToBits(0, U32Bits), ToBits(3, U32Bits) >>,
      << ToBits(3, U32Bits), ToBits(1, U32Bits) >>,
      << ToBits(InitPages * PageSize - 1, U32Bits), ToBits(2, U32Bits) >>,
      << AllOnes(U32Bits), [i \in 1..U32Bits |-> IF i = U32Bits THEN 1 ELSE 0] >> }

\* 32-bit words a guest passes: small numbers, the pointers it was given,
\* and 0xFFFFFFFF
U32Samples(known) ==
    {ToBits(0, U32Bits), ToBits(2, U32Bits), AllOnes(U32Bits)}
        \cup {ToBits(q, U32Bits) : q \in known}

\* an argument as the guest forms it: the value passed, and for a packed
\* word the pair it was packed from
ArgSamples(ty, known) ==
    CASE ty = "I32" -> {[val |-> I32(b), loc |-> << >>] : b \in U32Samples(known)}
      [] ty = "I64" -> {[val |-> I64(Pack(l[1], l[2])), loc |-> l] : l \in LocSamples}
      [] OTHER -> {[val |-> [ty |-> ty, bits |-> Zeros(Width(ty))], loc |-> << >>]}

ArgChoices(ft, known) ==
    LET n == Len(ft.params)
        S(i) == ArgSamples(ft.params[i], known)
    IN  CASE n = 0 -> {<< >>}
          [] n = 1 -> {<< a >> : a \in S(1)}
          [] n = 2 -> {<< a, b >> : a \in S(1), b \in S(2)}
          [] OTHER -> {<< a, b, c >> : a \in S(1), b \in S(2), c \in S(3)}

(* ------------------------------ driver -------------------------------- *)
Steps ==
    << "read", "module", "imports", "instantiate", "memory", "inject",
       "export", "invoke" >>

StepIndex(s) == CHOOSE k \in 1..Len(Steps) : Steps[k] = s

\* main: the payloads of the two runs (`vec![2].encode()` and `[]`)
InputData(r) == IF r = 1 THEN << 4, 2, 0, 0, 0 >> ELSE << >>

\* inject_input_data
inject_input_data(a, holder, mem, data) ==
    LET w == MemoryHolder_with(holder, mem)
        none == << >>
    IN  IF ~w.ok
        THEN [res |-> "Panic", allocator |-> a, mem |-> mem, args |-> none, view |-> -1]
        ELSE LET r == allocate(a, w.memory, Len(data))
                 view == Len(w.memory)
             IN  IF ~r.ok
                 THEN [res |-> "Err", allocator |-> r.a, mem |-> mem,
                       args |-> none, view |-> view]
                 ELSE IF r.ptr + Len(data) > Len(w.memory)
                 THEN [res |-> "Panic", allocator |-> r.a, mem |-> mem,
                       args |-> none, view |-> view]
                 ELSE [res |-> "Ok", allocator |-> r.a,
                       mem |-> [i \in 1..Len(mem) |->
                                   IF i > r.ptr /\ i <= r.ptr + Len(data)
                                   THEN data[i - r.ptr] ELSE mem[i]],
                       args |-> << I32(ToBits(r.ptr, U32Bits)),
                                   I32(ToBits(Len(data), U32Bits)) >>,
                       view |-> view]

VARIABLES
    proc,       \* the process: "running", "exited_ok", "exited_err", "aborted"
    run,        \* which perform_call of main is executing (1 or 2)
    pc,         \* perform_call's position
    outcome,    \* what each perform_call returned
    imports,    \* module.imports()
    externs,    \* the stubs built so far
    allocator,  \* the run's FreeingBumpHeapAllocator
    holder,     \* the run's MemoryHolder
    mem,        \* the instance's linear memory
    args,       \* the (ptr, len) values inject_input_data returned
    stdout,     \* the lines printed so far
    calls,      \* host calls made so far in the process
    last,       \* the most recent host call of the run and how it ended
    heap,       \* the pointers the guest was given and gave back, this run
    view,       \* the memory size the allocator was last handed, and the size then
    begun,      \* the steps of perform_call executed in this run
    failedAt,   \* the step whose failure condition was met in this run
    binds       \* how often the holder was bound in this run

vars ==
    << proc, run, pc, outcome, imports, externs, allocator, holder, mem, args,
       stdout, calls, last, heap, view, begun, failedAt, binds >>

NoCall ==
    [name |-> "", func_ty |-> Sig(<< >>, << >>), ptr |-> 0, locs |-> << >>,
     phase |-> "", bound |-> FALSE, outcome |-> "", fault |-> "none",
     results |-> << >>, decoded |-> << >>, touched |-> FALSE, ptrState |-> ""]

NoView == [op |-> "none", size |-> 0, cur |-> 0]
NoHeap == [live |-> {}, freed |-> {}]

Init ==
    /\ proc = "running"
    /\ run = 1
    /\ pc = "read"
    /\ outcome = [r \in 1..2 |-> "notrun"]
    /\ imports = << >>
    /\ externs = << >>
    /\ allocator = FreeingBumpHeapAllocator_new(heap_base)
    /\ holder = MemoryHolder_new
    /\ mem = << >>
    /\ args = << >>
    /\ stdout = << >>
    /\ calls = 0
    /\ last = NoCall
    /\ heap = NoHeap
    /\ view = NoView
    /\ begun = {}
    /\ failedAt = "none"
    /\ binds = 0

\* perform_call returns `what` to main
Return(what) ==
    /\ pc' = "returned"
    /\ outcome' = [outcome EXCEPT ![run] = what]

\* a `?` or `return Err(..)` at step s
FailAt(s) ==
    /\ Return("error")
    /\ failedAt' = s

\* fs::read("sc_runtime_test.wasm")?
ReadCode ==
    /\ proc = "running" /\ pc = "read"
    /\ begun' = begun \cup {"read"}
    /\ \E ok \in BOOLEAN :
         IF ok THEN pc' = "module" /\ UNCHANGED << outcome, failedAt >>
         ELSE FailAt("read")
    /\ UNCHANGED << proc, run, imports, externs, allocator, holder, mem, args,
                    stdout, calls, last, heap, view, binds >>

\* a driver that keeps one allocator for all its runs
ModuleNew_SharedAllocator ==
    /\ proc = "running" /\ pc = "module"
    /\ begun' = begun \cup {"module"}
    /\ \/ /\ \E g \in Guests : imports' = g
          /\ allocator' = IF run = 1 THEN FreeingBumpHeapAllocator_new(heap_base)
                          ELSE allocator
          /\ holder' = MemoryHolder_new
          /\ externs' = << >>
          /\ pc' = "imports"
          /\ UNCHANGED << outcome, failedAt >>
       \/ /\ FailAt("module")
          /\ UNCHANGED << imports, allocator, holder, externs >>
    /\ UNCHANGED << proc, run, mem, args, stdout, calls, last, heap, view, binds >>

\* Module::new(&store, &code)?, then the allocator, the holder and the
\* empty externs
ModuleNew ==
    /\ proc = "running" /\ pc = "module"
    /\ begun' = begun \cup {"module"}
    /\ \/ /\ \E g \in Guests : imports' = g
          /\ allocator' = FreeingBumpHeapAllocator_new(heap_base)
          /\ holder' = MemoryHolder_new
          /\ externs' = << >>
          /\ pc' = "imports"
          /\ UNCHANGED << outcome, failedAt >>
       \/ /\ FailAt("module")
          /\ UNCHANGED << imports, allocator, holder, externs >>
    /\ UNCHANGED << proc, run, mem, args, stdout, calls, last, heap, view, binds >>

\* a loop that skips what it cannot provide
ImportStep_Skip ==
    /\ proc = "running" /\ pc = "imports"
    /\ Len(externs) < Len(imports)
    /\ begun' = begun \cup {"imports"}
    /\ LET import == imports[Len(externs) + 1]
       IN  /\ externs' = Append(externs, [name |-> import.name, func_ty |-> import.func_ty])
           /\ failedAt' = IF import.kind = "func" THEN failedAt ELSE "imports"
           /\ UNCHANGED << pc, outcome >>
    /\ UNCHANGED << proc, run, imports, allocator, holder, mem, args, stdout,
                    calls, last, heap, view, binds >>

\* one turn of `for import in module.imports()`
ImportStep ==
    /\ proc = "running" /\ pc = "imports"
    /\ Len(externs) < Len(imports)
    /\ begun' = begun \cup {"imports"}
    /\ LET import == imports[Len(externs) + 1]
       IN  IF import.kind = "func"
           THEN /\ externs' = Append(externs, [name |-> import.name,
                                               func_ty |-> import.func_ty])
                /\ UNCHANGED << pc, outcome, failedAt >>
           ELSE /\ FailAt("imports")
                /\ UNCHANGED externs
    /\ UNCHANGED << proc, run, imports, allocator, holder, mem, args, stdout,
                    calls, last, heap, view, binds >>

\* Instance::new(&module, &externs): the instance's memory comes to be and
\* the start function, if any, begins to run; or linking fails
InstanceNew ==
    /\ proc = "running" /\ pc = "imports"
    /\ Len(externs) = Len(imports)
    /\ begun' = begun \cup {"imports", "instantiate"}
    /\ \/ /\ \E pages \in {InitPages - 1, InitPages} : mem' = FreshMem(pages)
          /\ pc' = "start"
          /\ UNCHANGED << outcome, failedAt >>
       \/ /\ FailAt("instantiate")
          /\ UNCHANGED mem
    /\ UNCHANGED << proc, run, imports, externs, allocator, holder, args, stdout,
                    calls, last, heap, view, binds >>

\* Instance::new returns the instance
InstanceNewDone ==
    /\ proc = "running" /\ pc = "start"
    /\ pc' = "memory"
    /\ UNCHANGED << proc, run, outcome, imports, externs, allocator, holder, mem,
                    args, stdout, calls, last, heap, view, begun, failedAt, binds >>

\* memory.set(instance.get_export("memory")?.memory()?.clone())
GetMemory ==
    /\ proc = "running" /\ pc = "memory"
    /\ begun' = begun \cup {"memory"}
    /\ \E export \in {"memory", "absent", "wrongkind"} :
         IF export = "memory"
         THEN /\ holder' = MemoryHolder_set(holder)
              /\ binds' = binds + 1
              /\ pc' = "inject"
              /\ UNCHANGED << outcome, failedAt >>
         ELSE /\ FailAt("memory")
              /\ UNCHANGED << holder, binds >>
    /\ UNCHANGED << proc, run, imports, externs, allocator, mem, args, stdout,
                    calls, last, heap, view >>

\* inject_input_data(&mut *allocator.borrow_mut(), &memory, input_data)?
Inject ==
    /\ proc = "running" /\ pc = "inject"
    /\ begun' = begun \cup {"inject"}
    /\ LET r == inject_input_data(allocator, holder, mem, InputData(run))
       IN  /\ allocator' = r.allocator
           /\ mem' = r.mem
           /\ args' = r.args
           /\ view' = IF r.view = -1 THEN view
                      ELSE [op |-> "inject", size |-> r.view, cur |-> Len(mem)]
           /\ CASE r.res = "Ok" ->
                     /\ pc' = "export"
                     /\ heap' = [heap EXCEPT !.live = @ \cup {AsUsize(r.args[1].bits)}]
                     /\ UNCHANGED << proc, outcome, failedAt >>
                [] r.res = "Err" ->
                     /\ FailAt("inject")
                     /\ UNCHANGED << proc, heap >>
                [] OTHER ->
                     /\ proc' = "aborted"
                     /\ UNCHANGED << pc, outcome, failedAt, heap >>
    /\ UNCHANGED << run, imports, externs, holder, stdout, calls, last, binds >>

\* instance.get_export(method_name)?.func()?
GetExport ==
    /\ proc = "running" /\ pc = "export"
    /\ begun' = begun \cup {"export"}
    /\ \E export \in {"func", "absent", "notfunc"} :
         IF export = "func"
         THEN pc' = "invoke" /\ UNCHANGED << outcome, failedAt >>
         ELSE FailAt("export")
    /\ UNCHANGED << proc, run, imports, externs, allocator, holder, mem, args,
                    stdout, calls, last, heap, view, binds >>

(* ------------------------------- guest -------------------------------- *)
InGuest == pc \in {"start", "invoke"}

PtrState(p) ==
    IF p \in heap.live THEN "live" ELSE IF p \in heap.freed THEN "freed" ELSE "never"

\* the guest calls one of its imports
GuestCall ==
    /\ proc = "running" /\ InGuest /\ calls < MaxCalls
    /\ \E i \in 1..Len(externs) :
         \E g \in ArgChoices(externs[i].func_ty, heap.live \cup heap.freed) :
           LET self == externs[i]
               params == [k \in 1..Len(g) |-> g[k].val]
               r == call(self, params, allocator, holder, mem)
               p == IF Len(params) >= 1 THEN AsUsize(params[1].bits) ELSE 0
           IN  /\ allocator' = r.allocator
               /\ stdout' = stdout \o r.lines
               /\ calls' = calls + 1
               /\ view' = IF r.view = -1 THEN view
                          ELSE [op |-> self.name, size |-> r.view, cur |-> Len(mem)]
               /\ last' = [name |-> self.name, func_ty |-> self.func_ty,
                           ptr |-> IF self.name \in {MallocName, FreeName}
                                   THEN p ELSE 0,
                           locs |-> IF self.name = LogName
                                    THEN [k \in 1..Len(g) |-> g[k].loc]
                                    ELSE << >>,
                           phase |-> pc, bound |-> holder.inner = "Some",
                           outcome |-> r.outcome, fault |-> r.fault,
                           results |-> r.results, decoded |-> r.decoded,
                           touched |-> \/ r.allocator # allocator
                                       \/ r.lines # << >>
                                       \/ r.view # -1,
                           ptrState |-> PtrState(p)]
               /\ heap' =
                    IF r.outcome = "Ok" /\ self.name = MallocName /\ Len(r.results) >= 1
                    THEN LET q == AsUsize(r.results[1].bits)
                         IN  [live |-> heap.live \cup {q}, freed |-> heap.freed \ {q}]
                    ELSE IF r.outcome = "Ok" /\ self.name = FreeName
                    THEN [live |-> heap.live \ {p}, freed |-> heap.freed \cup {p}]
                    ELSE heap
               /\ CASE r.outcome = "Ok" ->
                         UNCHANGED << proc, pc, outcome, failedAt, begun >>
                    [] r.outcome = "Trap" /\ pc = "start" ->
                         /\ FailAt("instantiate")
                         /\ UNCHANGED << proc, begun >>
                    [] r.outcome = "Trap" /\ pc = "invoke" ->
                         /\ Return("trapped")
                         /\ begun' = begun \cup {"invoke"}
                         /\ UNCHANGED << proc, failedAt >>
                    [] OTHER ->
                         /\ proc' = "aborted"
                         /\ UNCHANGED << pc, outcome, failedAt, begun >>
    /\ UNCHANGED << run, imports, externs, holder, mem, args, binds >>

\* the guest grows its memory by one page
GuestGrow ==
    /\ proc = "running" /\ InGuest
    /\ Len(mem) + PageSize <= MaxPages * PageSize
    /\ mem' = mem \o [i \in 1..PageSize |-> 0]
    /\ begun' = IF pc = "invoke" THEN begun \cup {"invoke"} ELSE begun
    /\ UNCHANGED << proc, run, pc, outcome, imports, externs, allocator, holder,
                    args, stdout, calls, last, heap, view, failedAt, binds >>

\* the guest traps by itself
GuestTrap ==
    /\ proc = "running" /\ InGuest
    /\ IF pc = "start"
       THEN FailAt("instantiate") /\ UNCHANGED begun
       ELSE Return("trapped") /\ begun' = begun \cup {"invoke"} /\ UNCHANGED failedAt
    /\ UNCHANGED << proc, run, imports, externs, allocator, holder, mem, args,
                    stdout, calls, last, heap, view, binds >>

\* the entry point returns: .call(&[ptr, len])? then Ok(())
GuestReturn ==
    /\ proc = "running" /\ pc = "invoke"
    /\ Return("ok")
    /\ begun' = begun \cup {"invoke"}
    /\ UNCHANGED << proc, run, imports, externs, allocator, holder, mem, args,
                    stdout, calls, last, heap, view, failedAt, binds >>

(* -------------------------------- main -------------------------------- *)
\* main: perform_call(..)?; perform_call(..)?; Ok(())
MainNext ==
    /\ proc = "running" /\ pc = "returned"
    /\ IF outcome[run] # "ok"
       THEN /\ proc' = "exited_err"
            /\ UNCHANGED << run, pc, last, heap, view, begun, failedAt, binds >>
       ELSE IF run = 1
       THEN /\ run' = 2
            /\ pc' = "read"
            /\ last' = NoCall
            /\ heap' = NoHeap
            /\ view' = NoView
            /\ begun' = {}
            /\ failedAt' = "none"
            /\ binds' = 0
            /\ UNCHANGED proc
       ELSE /\ proc' = "exited_ok"
            /\ UNCHANGED << run, pc, last, heap, view, begun, failedAt, binds >>
    /\ UNCHANGED << outcome, imports, externs, allocator, holder, mem, args,
                    stdout, calls >>

Next ==
    \/ ReadCode
    \/ ModuleNew
    \/ ImportStep
    \/ InstanceNew
    \/ InstanceNewDone
    \/ GetMemory
    \/ Inject
    \/ GetExport
    \/ GuestCall
    \/ GuestGrow
    \/ GuestTrap
    \/ GuestReturn
    \/ MainNext

Spec == Init /\ [][Next]_vars

(* ------------------------------ claims -------------------------------- *)
ZeroOf(ty) == [ty |-> ty, bits |-> Zeros(Width(ty))]

\* C1: every failure raised inside a host stub (allocator error, bad text
\* read, unbound handle, any panic) ends the call in a trap with no result
\* values; none unwinds into the driver or aborts the process.
C1_FaultsEndInTrap ==
    /\ proc # "aborted"
    /\ last.outcome \in {"", "Ok", "Trap"}
    /\ last.fault # "none" => last.outcome = "Trap" /\ last.results = << >>
    /\ last.outcome = "Ok" => last.fault = "none"

\* a logging call on a bound memory panicked inside and came back as a trap
C1_Witness ==
    /\ last.name = LogName /\ last.bound
    /\ last.fault = "panic" /\ last.outcome = "Trap"
    /\ proc = "running"

\* C2: a stub for an unrecognized import returns normally, with every
\* result slot holding the zero of its declared result type, for any
\* signature and any arguments.
C2_UnrecognizedReturnsZeros ==
    (last.name # "" /\ last.name \notin Recognized) =>
        /\ last.outcome = "Ok"
        /\ last.results =
             [k \in 1..Len(last.func_ty.results) |-> ZeroOf(last.func_ty.results[k])]

\* C3: when the first run's entry point traps, the process goes on and the
\* run after it is executed.
C3_RunAfterTrapIsExecuted ==
    /\ proc # "aborted"
    /\ (outcome[1] = "trapped" /\ proc # "running") => outcome[2] # "notrun"

\* C4: a run starts from a fresh allocator and an unbound holder whatever
\* the run before it did; the guest of either run starts on the memory of a
\* fresh instance, and the pointer the run's input is injected at is the
\* heap base.
C4_RunsShareNoState ==
    /\ pc \in {"imports", "start", "memory"} =>
          /\ allocator = FreeingBumpHeapAllocator_new(heap_base)
          /\ holder = MemoryHolder_new
    /\ pc = "start" => mem = FreshMem(Len(mem) \div PageSize)
    /\ pc = "export" =>
          args = << I32(ToBits(heap_base, U32Bits)),
                    I32(ToBits(Len(InputData(run)), U32Bits)) >>

\* the second run has injected its input after the first run allocated
C4_Witness ==
    /\ run = 2 /\ pc = "export"
    /\ outcome[1] = "ok"

\* C5: within a run the holder is bound at most once, after instantiation
\* and before the input is injected and the entry point invoked; a stub that
\* accesses the holder before that fails and touches neither the allocator,
\* the memory view nor the output, also during instantiation.
C5_BoundOnceAfterInstantiation ==
    /\ binds <= 1
    /\ pc \in {"imports", "start", "memory"} => holder.inner = "None" /\ binds = 0
    /\ pc \in {"inject", "export", "invoke"} =>
          holder.inner = "Some" /\ binds = 1 /\ "instantiate" \in begun
    /\ binds = 1 => "memory" \in begun
    /\ last.phase = "start" => ~last.bound
    /\ (last.name \in Recognized /\ ~last.bound) =>
          last.outcome = "Trap" /\ ~last.touched
    /\ view.op # "none" => binds = 1

\* the guest's start function asked for memory before the holder was bound
C5_Witness ==
    /\ last.phase = "start" /\ last.name = MallocName /\ last.func_ty = MallocSig
    /\ last.outcome = "Trap"
    /\ failedAt = "instantiate"

\* C6: the steps of a run execute in order; a failing step ends the run
\* with an error returned to main (no trap, no abort) and no later step is
\* executed.
C6_StepsInOrderStopAtFailure ==
    /\ \A k \in 1..Len(Steps) :
          Steps[k] \in begun => \A j \in 1..(k - 1) : Steps[j] \in begun
    /\ pc # "returned" => failedAt = "none"
    /\ failedAt # "none" =>
          /\ pc = "returned" /\ outcome[run] = "error" /\ proc # "aborted"
          /\ \A k \in 1..Len(Steps) : Steps[k] \in begun => k <= StepIndex(failedAt)
    /\ outcome[run] = "error" => failedAt # "none"
    /\ outcome[run] \in {"ok", "trapped"} => begun = {Steps[k] : k \in 1..Len(Steps)}

\* the memory export was missing: the run ended before injecting anything
C6_Witness ==
    /\ failedAt = "memory" /\ pc = "returned" /\ outcome[run] = "error"
    /\ "inject" \notin begun

\* C7: through the free service, a pointer the guest holds is freed
\* normally; a pointer that is not currently allocated (freed already, or
\* never returned) ends the call in a trap.
C7_FreeOfDeadPointerTraps ==
    (last.name = FreeName /\ last.func_ty = FreeSig /\ last.bound) =>
        IF last.ptrState = "live"
        THEN last.outcome = "Ok"
        ELSE last.outcome = "Trap" /\ last.fault = "deallocate"

\* the guest freed a pointer a second time
C7_Witness ==
    /\ last.name = FreeName /\ last.func_ty = FreeSig /\ last.bound
    /\ last.ptrState = "freed" /\ last.outcome = "Trap"

Readable(loc, memory) ==
    /\ AsUsize(loc[1]) + AsUsize(loc[2]) <= Len(memory)
    /\ ValidUtf8(SubSeq(memory, AsUsize(loc[1]) + 1, AsUsize(loc[1]) + AsUsize(loc[2])))

Text(loc, memory) ==
    SubSeq(memory, AsUsize(loc[1]) + 1, AsUsize(loc[1]) + AsUsize(loc[2]))

\* C8: a logging call on the bound memory prints exactly the line
\* `<target>: <message>` and returns when both ranges lie inside the memory
\* as it is now and both are well-formed UTF-8; otherwise it traps and
\* prints nothing.
C8_LogPrintsOrTraps ==
    [][ (calls' = calls + 1 /\ last'.name = LogName /\ last'.func_ty = LogSig
            /\ holder.inner = "Some") =>
          LET target == last'.locs[2]
              msg == last'.locs[3]
          IN  IF Readable(target, mem) /\ Readable(msg, mem)
              THEN /\ last'.outcome = "Ok"
                   /\ stdout' = Append(stdout, Text(target, mem) \o << 58, 32 >>
                                                  \o Text(msg, mem))
              ELSE /\ last'.outcome = "Trap"
                   /\ stdout' = stdout ]_vars

\* one logging call printed, and a later one trapped
C8_Witness ==
    /\ last.name = LogName /\ last.func_ty = LogSig /\ last.bound
    /\ last.outcome = "Trap"
    /\ stdout # << >>

\* C9: what the logging stub unpacks from a packed word is the pair the
\* guest packed: pointer = low 32 bits, length = high 32 bits.
C9_UnpackInvertsPack ==
    /\ last.decoded # << >> => last.decoded = << last.locs[2], last.locs[3] >>
    /\ \A l \in LocSamples : unpack_ptr_and_len(Pack(l[1], l[2])) = l

\* a pair with the top bit of the length set went through
C9_Witness ==
    /\ last.decoded # << >>
    /\ last.locs[2][2][U32Bits] = 1
    /\ last.locs[3][1] = ToBits(3, U32Bits)

\* C10: the memory size the allocator is handed in an allocate, deallocate
\* or input injection is the size of the memory at that moment.
C10_AllocatorSeesCurrentView ==
    view.op # "none" => view.size = view.cur

\* the guest asked for memory after it had grown its memory
C10_Witness ==
    /\ view.op = MallocName
    /\ view.cur = MaxPages * PageSize
    /\ last.outcome = "Ok"

====
